---------------------------- MODULE Spec2Model ----------------------------
(***************************************************************************)
(* A model of tsup's tsconfig-init (src/src/lib.rs): one execution of      *)
(* run(), which asks six questions (prompt_options), resolves and creates  *)
(* the project directory, builds the tsconfig document                     *)
(* (generate_tsconfig) and writes it to <project_dir>/tsconfig.json.       *)
(*                                                                         *)
(* JSON values are tagged tuples of strings: <<"bool","true">>,            *)
(* <<"str","es2022">>, <<"arr","es2022","dom">>.  A JSON object is a       *)
(* function from its keys to its values.  A path is the sequence of its    *)
(* components; an absolute path starts with the root component "/".        *)
(***************************************************************************)
EXTENDS Naturals, Sequences, FiniteSets, TLC

VARIABLES
    pc,          \* the statement run() / init() / prompt_options() is at
    options,     \* the answers collected so far; the ProjectOptions record once all six are in
    project_dir, \* init's project_dir
    tsconfig,    \* init's tsconfig
    result,      \* what init() returned: <<>> (not yet), <<"Ok">> or <<"Err", kind>>
    dirs,        \* the filesystem: the directories that exist
    files,       \* the filesystem: path -> text of the files that exist
    fs0,         \* the filesystem the process started with (never changes)
    stdout,      \* lines printed with println!
    stderr,      \* lines printed with eprintln!
    exit_code,   \* <<>> while the process runs, <<code>> once it has ended
    log          \* the steps executed so far, in order

vars == <<pc, options, project_dir, tsconfig, result, dirs, files, fs0,
          stdout, stderr, exit_code, log>>

\* The largest number of tsconfig.json files that exist before the run.
MaxExisting == 1

-----------------------------------------------------------------------------
(* JSON values and objects *)

JBool(b) == <<"bool", IF b THEN "true" ELSE "false">>
JStr(s) == <<"str", s>>
JArr(items) == <<"arr">> \o items

EmptyObject == [k \in {} |-> <<>>]

\* serde_json::Map::insert: the key is added, or its value replaced.
Insert(map, key, value) ==
    [k \in DOMAIN map \cup {key} |-> IF k = key THEN value ELSE map[k]]

\* serde_json::Map::extend: every entry of other is inserted into map.
Extend(map, other) ==
    [k \in DOMAIN map \cup DOMAIN other |->
        IF k \in DOMAIN other THEN other[k] ELSE map[k]]

-----------------------------------------------------------------------------
(* generate_tsconfig: the base mapping and the five settings steps.  Each   *)
(* step is the object the code extends compiler_options with (the empty    *)
(* object where the code's branch inserts nothing).                        *)

\* let mut compiler_options = json!({ ... })
BaseOptions ==
    [esModuleInterop |-> JBool(TRUE),
     skipLibCheck |-> JBool(TRUE),
     target |-> JStr("es2022"),
     allowJs |-> JBool(TRUE),
     resolveJsonModule |-> JBool(TRUE),
     moduleDetection |-> JStr("force"),
     isolatedModules |-> JBool(TRUE),
     verbatimModuleSyntax |-> JBool(TRUE)]

\* A slip of the Strictness match: the On arm copies the Strict arm.
StrictnessSettings_OnAsStrict(opts) ==
    IF opts.strictness \in {"Strict", "On"}
    THEN [strict |-> JBool(TRUE),
          noUncheckedIndexedAccess |-> JBool(TRUE),
          noImplicitOverride |-> JBool(TRUE)]
    ELSE EmptyObject

\* match options.strictness { Strict => extend, On => insert, Off => {} }
StrictnessSettings(opts) ==
    CASE opts.strictness = "Strict" ->
            [strict |-> JBool(TRUE),
             noUncheckedIndexedAccess |-> JBool(TRUE),
             noImplicitOverride |-> JBool(TRUE)]
      [] opts.strictness = "On" -> [strict |-> JBool(TRUE)]
      [] opts.strictness = "Off" -> EmptyObject

\* A slip of the else branch: the check-only settings lack "module".
TranspilingSettings_NoModuleWhenNoEmit(opts) ==
    IF opts.is_transpiler
    THEN [module |-> JStr("NodeNext"),
          outDir |-> JStr("dist"),
          sourceMap |-> JBool(TRUE)]
    ELSE [noEmit |-> JBool(TRUE)]

\* A slip of the transpiling branch: it also sets target, a key of the base mapping.
TranspilingSettings_OverwritesTarget(opts) ==
    IF opts.is_transpiler
    THEN [module |-> JStr("NodeNext"),
          outDir |-> JStr("dist"),
          sourceMap |-> JBool(TRUE),
          target |-> JStr("esnext")]
    ELSE [module |-> JStr("preserve"),
          noEmit |-> JBool(TRUE)]

\* if options.is_transpiler { extend {module, outDir, sourceMap} } else { extend {module, noEmit} }
TranspilingSettings(opts) ==
    IF opts.is_transpiler
    THEN [module |-> JStr("NodeNext"),
          outDir |-> JStr("dist"),
          sourceMap |-> JBool(TRUE)]
    ELSE [module |-> JStr("preserve"),
          noEmit |-> JBool(TRUE)]

\* A slip of the library step: "declaration" is always inserted, with the flag's value.
LibrarySettings_ExplicitFalse(opts) ==
    [declaration |-> JBool(opts.is_library)]

\* if options.is_library { insert declaration = true }
LibrarySettings(opts) ==
    IF opts.is_library
    THEN [declaration |-> JBool(TRUE)]
    ELSE EmptyObject

\* A slip of the monorepo step: "declarationMap" is forgotten.
MonorepoSettings_CompositeOnly(opts) ==
    IF opts.is_monorepo
    THEN [composite |-> JBool(TRUE)]
    ELSE EmptyObject

\* if options.is_monorepo { extend {composite, declarationMap} }
MonorepoSettings(opts) ==
    IF opts.is_monorepo
    THEN [composite |-> JBool(TRUE),
          declarationMap |-> JBool(TRUE)]
    ELSE EmptyObject

\* A slip of the DOM step: "lib" is only set for a DOM project.
DomSettings_OnlyWhenDom(opts) ==
    IF opts.is_dom
    THEN [lib |-> JArr(<<"es2022", "dom", "dom.iterable">>)]
    ELSE EmptyObject

\* if options.is_dom { insert lib = [es2022, dom, dom.iterable] } else { insert lib = [es2022] }
DomSettings(opts) ==
    IF opts.is_dom
    THEN [lib |-> JArr(<<"es2022", "dom", "dom.iterable">>)]
    ELSE [lib |-> JArr(<<"es2022">>)]

\* The objects the body of generate_tsconfig extends compiler_options with, in order.
SettingsSteps(opts) ==
    <<StrictnessSettings(opts), TranspilingSettings(opts), LibrarySettings(opts),
      MonorepoSettings(opts), DomSettings(opts)>>

RECURSIVE ApplySteps(_, _)
\* compiler_options after the steps have been applied, first to last.
ApplySteps(compiler_options, steps) ==
    IF Len(steps) = 0
    THEN compiler_options
    ELSE ApplySteps(Extend(compiler_options, Head(steps)), Tail(steps))

\* A slip of generate_tsconfig: the project name leaks into the document as rootDir.
generate_tsconfig_NameAsRootDir(opts) ==
    [compilerOptions |->
        Insert(ApplySteps(BaseOptions, SettingsSteps(opts)),
               "rootDir", JStr(opts.project_name))]

\* fn generate_tsconfig(options: &ProjectOptions) -> serde_json::Value
generate_tsconfig(opts) ==
    [compilerOptions |-> ApplySteps(BaseOptions, SettingsSteps(opts))]

-----------------------------------------------------------------------------
(* Paths, the filesystem and serialization *)

\* The project names the operator may type: the default, a plain name, a
\* nested relative path and an absolute path.
ProjectNames == {".", "app", "pkgs/web", "/srv/app"}

\* Path::new(name): the components of each project name.
PathOf(name) ==
    CASE name = "." -> <<".">>
      [] name = "app" -> <<"app">>
      [] name = "pkgs/web" -> <<"pkgs", "web">>
      [] name = "/srv/app" -> <<"/", "srv", "app">>

\* std::env::current_dir(), when it succeeds.
Cwd == <<"/", "home", "work">>

\* Path::has_root
has_root(path) == Len(path) > 0 /\ path[1] = "/"

\* PathBuf::join: an absolute argument replaces the base.
join(base, path) == IF has_root(path) THEN path ELSE base \o path

\* A slip of init: the project name is not used, the file goes to the current directory.
ProjectDir_AlwaysCwd(name, current_dir) == current_dir

\* let project_dir = if options.project_name == "." { current_dir } else { current_dir.join(name) }
ProjectDir(name, current_dir) ==
    IF name = "." THEN current_dir ELSE join(current_dir, PathOf(name))

\* let tsconfig_path = project_dir.join("tsconfig.json")
TsconfigPath(dir) == join(dir, <<"tsconfig.json">>)

\* A directory and every ancestor of it: what create_dir_all makes exist.
Ancestors(path) == {SubSeq(path, 1, k) : k \in 1..Len(path)}

\* serde_json::to_string_pretty: the text holds one member line per entry of
\* each top-level object (the order of the lines is not modelled).
to_string_pretty(doc) ==
    [keys |-> DOMAIN doc,
     members |-> UNION {{<<t, k, doc[t][k]>> : k \in DOMAIN doc[t]} : t \in DOMAIN doc}]

\* A file that was created or truncated and holds no text.
EmptyText == [keys |-> {}, members |-> {}]

\* fs::write when it succeeds: the file is created or its content replaced.
WriteFile(fs_files, path, text) ==
    [p \in DOMAIN fs_files \cup {path} |-> IF p = path THEN text ELSE fs_files[p]]

\* match strictness_idx { 0 => Off, 1 => On, 2 => Strict, _ => unreachable!() }
StrictnessOfIndex(idx) ==
    CASE idx = 0 -> "Off"
      [] idx = 1 -> "On"
      [] idx = 2 -> "Strict"

\* The defaults of the six prompts: ".", index 1, true, false, false, false.
DefaultOptions ==
    [project_name |-> ".", strictness |-> StrictnessOfIndex(1), is_transpiler |-> TRUE,
     is_library |-> FALSE, is_monorepo |-> FALSE, is_dom |-> FALSE]

\* A tsconfig.json this program did not write.
ForeignDocument ==
    [compilerOptions |-> [strict |-> JBool(FALSE), jsx |-> JStr("react-jsx")]]

\* What a tsconfig.json that exists before the run may hold: a foreign
\* document, or the output of an earlier run with the default answers.
ExistingTexts ==
    {to_string_pretty(ForeignDocument), to_string_pretty(generate_tsconfig(DefaultOptions))}

\* The directories a run may target.
TargetDirs == {Cwd} \cup {join(Cwd, PathOf(n)) : n \in ProjectNames \ {"."}}

-----------------------------------------------------------------------------
(* The run *)

Prompts ==
    <<"project_name", "strictness", "is_transpiler", "is_library", "is_monorepo", "is_dom">>

PromptSet == {Prompts[i] : i \in 1..Len(Prompts)}

\* The statement after the prompt at pc: the next prompt, or init's current_dir.
AfterPrompt(p) ==
    LET i == CHOOSE j \in 1..Len(Prompts) : Prompts[j] = p
    IN IF i < Len(Prompts) THEN Prompts[i + 1] ELSE "current_dir"

\* The process starts: nothing asked, nothing printed, and a filesystem that
\* holds the current directory and at most MaxExisting tsconfig.json files.
Init ==
    /\ pc = "get_matches"
    /\ options = EmptyObject
    /\ project_dir = <<>>
    /\ tsconfig = [compilerOptions |-> EmptyObject]
    /\ result = <<>>
    /\ stdout = <<>>
    /\ stderr = <<>>
    /\ exit_code = <<>>
    /\ log = <<>>
    /\ \E held \in SUBSET TargetDirs :
         /\ Cardinality(held) <= MaxExisting
         /\ \E text \in [held -> ExistingTexts] :
              /\ dirs = Ancestors(Cwd) \cup UNION {Ancestors(d) : d \in held}
              /\ files = [p \in {TsconfigPath(d) : d \in held} |->
                            text[SubSeq(p, 1, Len(p) - 1)]]
    /\ fs0 = [dirs |-> dirs, files |-> files]

\* run(): Command::new("tsconfig-init").get_matches(), then init() is entered.
GetMatches ==
    /\ pc = "get_matches"
    /\ pc' = "project_name"
    /\ log' = Append(log, <<"get_matches", "ok">>)
    /\ UNCHANGED <<options, project_dir, tsconfig, result, dirs, files, fs0,
                   stdout, stderr, exit_code>>

\* A prompt has been answered: the answer is kept and the next statement is reached.
Answered(field, value) ==
    /\ pc = field
    /\ options' = Insert(options, field, value)
    /\ pc' = AfterPrompt(field)
    /\ log' = Append(log, <<field, "ok">>)
    /\ UNCHANGED <<project_dir, tsconfig, result, dirs, files, fs0,
                   stdout, stderr, exit_code>>

\* Input::<String>::new().default(".").interact()?
PromptProjectName == \E name \in ProjectNames : Answered("project_name", name)

\* Select::new().default(1).items(..).interact()? and the match on the index
PromptStrictness == \E idx \in 0..2 : Answered("strictness", StrictnessOfIndex(idx))

\* Confirm::new().default(true).interact()?
PromptTranspiler == \E b \in BOOLEAN : Answered("is_transpiler", b)

\* Confirm::new().default(false).interact()?
PromptLibrary == \E b \in BOOLEAN : Answered("is_library", b)

\* Confirm::new().default(false).interact()?
PromptMonorepo == \E b \in BOOLEAN : Answered("is_monorepo", b)

\* Confirm::new().default(false).interact()?
PromptDom == \E b \in BOOLEAN : Answered("is_dom", b)

\* A `?` of init or prompt_options takes its error branch: init returns Err.
Fails(step, kind) ==
    /\ result' = <<"Err", kind>>
    /\ pc' = "match"
    /\ log' = Append(log, <<step, "err">>)

\* A slip of the prompts: an aborted prompt falls back to its default and goes on.
PromptAborted_UsesDefault ==
    /\ pc \in PromptSet
    /\ options' = Insert(options, pc, DefaultOptions[pc])
    /\ pc' = AfterPrompt(pc)
    /\ log' = Append(log, <<pc, "err">>)
    /\ UNCHANGED <<project_dir, tsconfig, result, dirs, files, fs0,
                   stdout, stderr, exit_code>>

\* interact()? fails at the prompt being asked (no terminal, or the operator aborts).
PromptAborted ==
    /\ pc \in PromptSet
    /\ Fails(pc, "interact")
    /\ UNCHANGED <<options, project_dir, tsconfig, dirs, files, fs0,
                   stdout, stderr, exit_code>>

\* std::env::current_dir()? succeeds and project_dir is resolved.
CurrentDir ==
    /\ pc = "current_dir"
    /\ project_dir' = ProjectDir(options.project_name, Cwd)
    /\ pc' = "create_dir_all"
    /\ log' = Append(log, <<"current_dir", "ok">>)
    /\ UNCHANGED <<options, tsconfig, result, dirs, files, fs0, stdout, stderr, exit_code>>

\* std::env::current_dir()? fails (the directory was removed, or cannot be read).
CurrentDirFails ==
    /\ pc = "current_dir"
    /\ Fails("current_dir", "current_dir")
    /\ UNCHANGED <<options, project_dir, tsconfig, dirs, files, fs0,
                   stdout, stderr, exit_code>>

\* fs::create_dir_all(&project_dir)? succeeds: the directory and its ancestors exist.
CreateDirAll ==
    /\ pc = "create_dir_all"
    /\ dirs' = dirs \cup Ancestors(project_dir)
    /\ pc' = "generate_tsconfig"
    /\ log' = Append(log, <<"create_dir_all", "ok">>)
    /\ UNCHANGED <<options, project_dir, tsconfig, result, files, fs0,
                   stdout, stderr, exit_code>>

\* fs::create_dir_all(&project_dir)? fails.  An existing directory never
\* fails; the ancestors made before the failing one stay.
CreateDirAllFails ==
    /\ pc = "create_dir_all"
    /\ project_dir \notin dirs
    /\ \E made \in 0..(Len(project_dir) - 1) :
         dirs' = dirs \cup {a \in Ancestors(project_dir) : Len(a) <= made}
    /\ Fails("create_dir_all", "create_dir_all")
    /\ UNCHANGED <<options, project_dir, tsconfig, files, fs0, stdout, stderr, exit_code>>

\* let tsconfig = generate_tsconfig(&options);
GenerateTsconfig ==
    /\ pc = "generate_tsconfig"
    /\ tsconfig' = generate_tsconfig(options)
    /\ pc' = "write"
    /\ log' = Append(log, <<"generate_tsconfig", "ok">>)
    /\ UNCHANGED <<options, project_dir, result, dirs, files, fs0,
                   stdout, stderr, exit_code>>

\* fs::write(&tsconfig_path, serde_json::to_string_pretty(&tsconfig)?)? succeeds.
Write ==
    /\ pc = "write"
    /\ files' = WriteFile(files, TsconfigPath(project_dir), to_string_pretty(tsconfig))
    /\ pc' = "println"
    /\ log' = Append(log, <<"write", "ok">>)
    /\ UNCHANGED <<options, project_dir, tsconfig, result, dirs, fs0,
                   stdout, stderr, exit_code>>

\* A slip of init: the result of fs::write is dropped and init goes on.
WriteFails_Ignored ==
    /\ pc = "write"
    /\ pc' = "println"
    /\ log' = Append(log, <<"write", "err">>)
    /\ UNCHANGED <<options, project_dir, tsconfig, result, dirs, files, fs0,
                   stdout, stderr, exit_code>>

\* fs::write(..)? fails.  fs::write is File::create followed by write_all: the
\* file is untouched when it cannot be opened, and is left created or
\* truncated when the write after it fails.
WriteFails ==
    /\ pc = "write"
    /\ \/ files' = files
       \/ files' = WriteFile(files, TsconfigPath(project_dir), EmptyText)
    /\ Fails("write", "write")
    /\ UNCHANGED <<options, project_dir, tsconfig, dirs, fs0, stdout, stderr, exit_code>>

\* println!("tsconfig.json has been generated in {}", project_dir.display()); Ok(())
Println ==
    /\ pc = "println"
    /\ stdout' = Append(stdout, <<"tsconfig.json has been generated in", project_dir>>)
    /\ result' = <<"Ok">>
    /\ pc' = "match"
    /\ log' = Append(log, <<"println", "ok">>)
    /\ UNCHANGED <<options, project_dir, tsconfig, dirs, files, fs0, stderr, exit_code>>

\* match init() { Ok(_) => () }: run returns and the process ends with status 0.
MatchOk ==
    /\ pc = "match"
    /\ result = <<"Ok">>
    /\ exit_code' = <<0>>
    /\ pc' = "done"
    /\ log' = Append(log, <<"return", "ok">>)
    /\ UNCHANGED <<options, project_dir, tsconfig, result, dirs, files, fs0, stdout, stderr>>

\* match init() { Err(e) => { eprintln!("Error: {}", e); process::exit(1); } }
MatchErr ==
    /\ pc = "match"
    /\ Len(result) = 2
    /\ stderr' = Append(stderr, <<"Error:", result[2]>>)
    /\ exit_code' = <<1>>
    /\ pc' = "done"
    /\ log' = Append(Append(log, <<"eprintln", "ok">>), <<"exit", "ok">>)
    /\ UNCHANGED <<options, project_dir, tsconfig, result, dirs, files, fs0, stdout>>

Next ==
    \/ GetMatches
    \/ PromptProjectName
    \/ PromptStrictness
    \/ PromptTranspiler
    \/ PromptLibrary
    \/ PromptMonorepo
    \/ PromptDom
    \/ PromptAborted
    \/ CurrentDir
    \/ CurrentDirFails
    \/ CreateDirAll
    \/ CreateDirAllFails
    \/ GenerateTsconfig
    \/ Write
    \/ WriteFails
    \/ Println
    \/ MatchOk
    \/ MatchErr

Spec == Init /\ [][Next]_vars

-----------------------------------------------------------------------------
(* Properties of generate_tsconfig, read off the document init holds after  *)
(* the call                                                                *)

\* The step has been executed and succeeded.
Did(step) == \E i \in 1..Len(log) : log[i] = <<step, "ok">>

Generated == Did("generate_tsconfig")

Succeeded == pc = "done" /\ result = <<"Ok">>

compilerOptions == tsconfig.compilerOptions

Has(map, key, value) == key \in DOMAIN map /\ map[key] = value

\* The settings steps of the call that insert the key.
StepsSetting(key) ==
    {i \in 1..Len(SettingsSteps(options)) : key \in DOMAIN SettingsSteps(options)[i]}

\* C1: whatever the options, compilerOptions.module is set by exactly one
\* step and is never absent: it is "NodeNext", with outDir = "dist" and
\* sourceMap = true and without noEmit, when is_transpiler is true, and
\* "preserve", with noEmit = true and without outDir and sourceMap, when
\* is_transpiler is false.
C1_ModuleSetByExactlyOneBranch ==
    Generated =>
        /\ "module" \in DOMAIN compilerOptions
        /\ "module" \notin DOMAIN BaseOptions
        /\ Cardinality(StepsSetting("module")) = 1
        /\ IF options.is_transpiler
           THEN /\ Has(compilerOptions, "module", JStr("NodeNext"))
                /\ Has(compilerOptions, "outDir", JStr("dist"))
                /\ Has(compilerOptions, "sourceMap", JBool(TRUE))
                /\ "noEmit" \notin DOMAIN compilerOptions
           ELSE /\ Has(compilerOptions, "module", JStr("preserve"))
                /\ Has(compilerOptions, "noEmit", JBool(TRUE))
                /\ "outDir" \notin DOMAIN compilerOptions
                /\ "sourceMap" \notin DOMAIN compilerOptions

\* A run that does not transpile has finished with module = "preserve".
C1_Witness ==
    /\ Succeeded
    /\ ~options.is_transpiler
    /\ Has(compilerOptions, "module", JStr("preserve"))

StrictnessKeys == {"strict", "noUncheckedIndexedAccess", "noImplicitOverride"}

\* C2: the strictness keys of the document are exactly: all three, each
\* true, for Strict; strict = true alone for On; none for Off; whatever the
\* four boolean options are.
C2_StrictnessKeysExact ==
    Generated =>
        LET present == StrictnessKeys \cap DOMAIN compilerOptions
        IN /\ \A k \in present : compilerOptions[k] = JBool(TRUE)
           /\ present = CASE options.strictness = "Strict" -> StrictnessKeys
                          [] options.strictness = "On" -> {"strict"}
                          [] options.strictness = "Off" -> {}

\* A run with strictness On, for a DOM library, has finished with strict alone.
C2_Witness ==
    /\ Succeeded
    /\ options.strictness = "On"
    /\ options.is_library
    /\ options.is_dom
    /\ StrictnessKeys \cap DOMAIN compilerOptions = {"strict"}

\* C3: compilerOptions always holds lib, set by exactly one step and by
\* nothing else: ["es2022","dom","dom.iterable"] when is_dom is true and
\* ["es2022"] when it is false.
C3_LibAlwaysSetOnce ==
    Generated =>
        /\ "lib" \in DOMAIN compilerOptions
        /\ "lib" \notin DOMAIN BaseOptions
        /\ StepsSetting("lib") = {Len(SettingsSteps(options))}
        /\ compilerOptions["lib"] =
              IF options.is_dom
              THEN <<"arr", "es2022", "dom", "dom.iterable">>
              ELSE <<"arr", "es2022">>

\* A run that is not for the DOM has finished with lib = ["es2022"].
C3_Witness ==
    /\ Succeeded
    /\ ~options.is_dom
    /\ Has(compilerOptions, "lib", <<"arr", "es2022">>)

\* C4: is_monorepo = true gives composite = true and declarationMap = true;
\* is_monorepo = false gives neither key, whatever is_library and the other
\* options are.
C4_MonorepoKeys ==
    Generated =>
        IF options.is_monorepo
        THEN /\ Has(compilerOptions, "composite", JBool(TRUE))
             /\ Has(compilerOptions, "declarationMap", JBool(TRUE))
        ELSE /\ "composite" \notin DOMAIN compilerOptions
             /\ "declarationMap" \notin DOMAIN compilerOptions

\* A monorepo run that is not a library has finished with both keys.
C4_Witness ==
    /\ Succeeded
    /\ options.is_monorepo
    /\ ~options.is_library
    /\ Has(compilerOptions, "declarationMap", JBool(TRUE))

\* C5: is_library = false leaves the declaration key absent (also when
\* is_monorepo is true); is_library = true gives declaration = true.
C5_DeclarationAbsentUnlessLibrary ==
    Generated =>
        IF options.is_library
        THEN Has(compilerOptions, "declaration", JBool(TRUE))
        ELSE "declaration" \notin DOMAIN compilerOptions

\* A monorepo run that is not a library has finished without declaration.
C5_Witness ==
    /\ Succeeded
    /\ ~options.is_library
    /\ options.is_monorepo
    /\ "declaration" \notin DOMAIN compilerOptions

\* The entries of an object, as key/value pairs.
Entries(map) == {<<k, map[k]>> : k \in DOMAIN map}

\* The reference mapping: the eight base entries and the entries of the
\* selected strictness, transpiler, library, monorepo and DOM branches.
ReferenceEntries(opts) ==
    {<<"esModuleInterop", <<"bool", "true">>>>,
     <<"skipLibCheck", <<"bool", "true">>>>,
     <<"target", <<"str", "es2022">>>>,
     <<"allowJs", <<"bool", "true">>>>,
     <<"resolveJsonModule", <<"bool", "true">>>>,
     <<"moduleDetection", <<"str", "force">>>>,
     <<"isolatedModules", <<"bool", "true">>>>,
     <<"verbatimModuleSyntax", <<"bool", "true">>>>}
    \cup (IF opts.strictness = "Strict"
          THEN {<<"strict", <<"bool", "true">>>>,
                <<"noUncheckedIndexedAccess", <<"bool", "true">>>>,
                <<"noImplicitOverride", <<"bool", "true">>>>}
          ELSE IF opts.strictness = "On"
          THEN {<<"strict", <<"bool", "true">>>>}
          ELSE {})
    \cup (IF opts.is_transpiler
          THEN {<<"module", <<"str", "NodeNext">>>>,
                <<"outDir", <<"str", "dist">>>>,
                <<"sourceMap", <<"bool", "true">>>>}
          ELSE {<<"module", <<"str", "preserve">>>>,
                <<"noEmit", <<"bool", "true">>>>})
    \cup (IF opts.is_library THEN {<<"declaration", <<"bool", "true">>>>} ELSE {})
    \cup (IF opts.is_monorepo
          THEN {<<"composite", <<"bool", "true">>>>,
                <<"declarationMap", <<"bool", "true">>>>}
          ELSE {})
    \cup (IF opts.is_dom
          THEN {<<"lib", <<"arr", "es2022", "dom", "dom.iterable">>>>}
          ELSE {<<"lib", <<"arr", "es2022">>>>})

ScenarioA(opts) ==
    /\ opts.strictness = "On"
    /\ opts.is_transpiler
    /\ ~opts.is_library
    /\ ~opts.is_monorepo
    /\ ~opts.is_dom

ScenarioB(opts) ==
    /\ opts.strictness = "Strict"
    /\ ~opts.is_transpiler
    /\ opts.is_library
    /\ opts.is_monorepo
    /\ opts.is_dom

ScenarioAKeys ==
    {"esModuleInterop", "skipLibCheck", "target", "allowJs", "resolveJsonModule",
     "moduleDetection", "isolatedModules", "verbatimModuleSyntax", "strict",
     "module", "outDir", "sourceMap", "lib"}

\* C6: for every option combination compilerOptions equals the reference
\* mapping and has no other key; no step inserts a key of the base mapping or
\* of another step; scenario A yields exactly its 13 keys, scenario B has
\* neither outDir nor sourceMap; the document's only key is compilerOptions.
C6_EqualsReferenceMapping ==
    Generated =>
        /\ DOMAIN tsconfig = {"compilerOptions"}
        /\ Entries(compilerOptions) = ReferenceEntries(options)
        /\ Cardinality(DOMAIN compilerOptions) = Cardinality(ReferenceEntries(options))
        /\ \A i \in 1..Len(SettingsSteps(options)) :
              /\ DOMAIN SettingsSteps(options)[i] \cap DOMAIN BaseOptions = {}
              /\ \A j \in 1..Len(SettingsSteps(options)) :
                    i # j => DOMAIN SettingsSteps(options)[i]
                                \cap DOMAIN SettingsSteps(options)[j] = {}
        /\ ScenarioA(options) =>
              /\ DOMAIN compilerOptions = ScenarioAKeys
              /\ Cardinality(DOMAIN compilerOptions) = 13
        /\ ScenarioB(options) =>
              /\ "outDir" \notin DOMAIN compilerOptions
              /\ "sourceMap" \notin DOMAIN compilerOptions

\* A run with the answers of scenario A has finished with 13 keys.
C6_Witness ==
    /\ Succeeded
    /\ ScenarioA(options)
    /\ Cardinality(DOMAIN compilerOptions) = 13

\* The options with another project name.
Renamed(opts, name) == [opts EXCEPT !.project_name = name]

\* C7: the document is a function of strictness and the four flags alone:
\* the call made for the collected options returns the document every call
\* with the same strictness and flags returns, whatever the project name and
\* whatever the filesystem held before; so does the text written from it.
C7_DependsOnlyOnStrictnessAndFlags ==
    /\ Generated =>
          \A name \in ProjectNames :
              tsconfig = generate_tsconfig(Renamed(options, name))
    /\ Did("write") =>
          \A name \in ProjectNames :
              files[TsconfigPath(project_dir)]
                 = to_string_pretty(generate_tsconfig(Renamed(options, name)))

\* A run for a project named otherwise than the default has written its
\* document where an earlier document was.
C7_Witness ==
    /\ Succeeded
    /\ options.project_name = "app"
    /\ TsconfigPath(project_dir) \in DOMAIN fs0.files
    /\ files[TsconfigPath(project_dir)] = to_string_pretty(tsconfig)

-----------------------------------------------------------------------------
(* Properties of the run *)

\* The steps that change the filesystem.
FsSteps == {"create_dir_all", "write"}

\* The filesystem is as the process found it.
FsUntouched == dirs = fs0.dirs /\ files = fs0.files

\* The positions of the log where a prompt was aborted.
AbortedAt == {i \in 1..Len(log) : log[i][1] \in PromptSet /\ log[i][2] = "err"}

\* C8: the prompts are asked in the fixed order; once a prompt is aborted no
\* later prompt is asked and nothing runs but the error report, the run ends
\* with an error, and no directory was created and no file written; every
\* filesystem action comes after all six answers.
C8_AbortBeforeAnyFilesystemAction ==
    /\ \A i \in 1..Len(log) :
          log[i][1] \in PromptSet => i - 1 \in 1..Len(Prompts) /\ log[i][1] = Prompts[i - 1]
    /\ \A i \in AbortedAt :
          /\ \A j \in 1..Len(log) : j > i => log[j][1] \in {"eprintln", "exit"}
          /\ \A j \in 1..Len(log) : log[j][1] \notin FsSteps
          /\ FsUntouched
          /\ pc \in {"match", "done"}
          /\ result = <<"Err", "interact">>
          /\ pc = "done" => exit_code = <<1>>
    /\ \A i \in 1..Len(log) :
          log[i][1] \in FsSteps =>
              /\ i > Len(Prompts) + 1
              /\ \A q \in 1..Len(Prompts) : log[q + 1] = <<Prompts[q], "ok">>
    /\ ~FsUntouched => DOMAIN options = PromptSet

\* The run has ended after the fifth prompt was aborted, where a project
\* directory named by the first answer did not exist.
C8_Witness ==
    /\ pc = "done"
    /\ \E i \in AbortedAt : log[i][1] = "is_monorepo"
    /\ options.project_name = "pkgs/web"
    /\ exit_code = <<1>>

\* <cwd>/<project_name> read as text: the name's components appended to cwd.
LiteralDir(name) ==
    IF name = "." THEN Cwd
    ELSE Cwd \o (IF has_root(PathOf(name)) THEN Tail(PathOf(name)) ELSE PathOf(name))

\* The directory the code resolves: a relative name is appended to cwd, an
\* absolute name stands alone.
ResolvedDir(name) ==
    IF name = "." THEN Cwd
    ELSE IF has_root(PathOf(name)) THEN PathOf(name) ELSE Cwd \o PathOf(name)

\* The positions of the log where the step succeeded.
Positions(step) == {i \in 1..Len(log) : log[i] = <<step, "ok">>}

\* A successful run has written one file, tsconfig.json in dir, after
\* creating dir and its ancestors; whatever was there is replaced by the text
\* of the document generate_tsconfig returns for the collected options, and
\* no other file changed.
WroteExactly(dir) ==
    /\ Cardinality(Positions("write")) = 1
    /\ Cardinality(Positions("create_dir_all")) = 1
    /\ \A c \in Positions("create_dir_all") : \A w \in Positions("write") : c < w
    /\ Ancestors(dir) \subseteq dirs
    /\ files = WriteFile(fs0.files, dir \o <<"tsconfig.json">>,
                         to_string_pretty(generate_tsconfig(options)))

\* C9 as stated: the file of a successful run is <cwd>/tsconfig.json for the
\* name "." and <cwd>/<project_name>/tsconfig.json for every other name.
C9_WrittenUnderCwd ==
    Succeeded => WroteExactly(LiteralDir(options.project_name))

\* C9, amended: the file of a successful run is <cwd>/tsconfig.json for the
\* name ".", <cwd>/<project_name>/tsconfig.json for a relative name, and
\* <project_name>/tsconfig.json for an absolute name; the directory is
\* created first, an existing file is replaced whole, the content is the
\* generated document.
C9_WrittenAtJoinedPath ==
    Succeeded => WroteExactly(ResolvedDir(options.project_name))

\* A run for an absolute project name has replaced the tsconfig.json that
\* was there.
C9_Witness ==
    /\ Succeeded
    /\ options.project_name = "/srv/app"
    /\ <<"/", "srv", "app", "tsconfig.json">> \in DOMAIN fs0.files
    /\ files # fs0.files

\* The positions of the log where a step failed.
ErrorsAt == {i \in 1..Len(log) : log[i][2] = "err"}

\* An error is surfaced at once: after a failed step nothing runs but the
\* error report and the exit; no step runs twice; a run with a failed step
\* prints no confirmation line.
ErrorsSurfaceAtOnce ==
    /\ \A i \in ErrorsAt :
          /\ SubSeq(log, i + 1, Len(log)) \in {<<>>, <<<<"eprintln", "ok">>, <<"exit", "ok">>>>}
          /\ stdout = <<>>
          /\ result = <<"Err", IF log[i][1] \in PromptSet THEN "interact" ELSE log[i][1]>>
    /\ \A i, j \in 1..Len(log) : i # j => log[i][1] # log[j][1]
    /\ pc # "done" => exit_code = <<>>

\* Success: the document is in tsconfig.json, the confirmation line naming
\* the directory is printed, nothing is on the error stream, the status is 0.
SuccessOutcome ==
    /\ exit_code = <<0>>
    /\ ErrorsAt = {}
    /\ stdout = <<<<"tsconfig.json has been generated in", project_dir>>>>
    /\ stderr = <<>>
    /\ Positions("write") # {}
    /\ files[TsconfigPath(project_dir)] = to_string_pretty(tsconfig)

\* Failure: one error line is printed, the status is not 0, no confirmation
\* line is printed and no write succeeded.
FailureReported ==
    /\ Len(exit_code) = 1
    /\ exit_code[1] # 0
    /\ ErrorsAt # {}
    /\ Len(stderr) = 1
    /\ stderr[1] = <<"Error:", result[2]>>
    /\ stdout = <<>>
    /\ Positions("write") = {}

\* A failed fs::write left the target created or truncated, without the document.
TargetLeftEmpty ==
    /\ result = <<"Err", "write">>
    /\ files = WriteFile(fs0.files, TsconfigPath(project_dir), EmptyText)

\* C10 as stated: a run ends in success, or in a reported failure that left
\* no tsconfig.json behind (every file is as the run found it); errors are
\* surfaced at once, nothing is retried, and a failed run prints no
\* confirmation.
C10_AllOrNothing ==
    /\ ErrorsSurfaceAtOnce
    /\ pc = "done" =>
          \/ SuccessOutcome
          \/ (FailureReported /\ files = fs0.files)

\* C10, amended: as stated, except that a run whose fs::write fails may leave
\* the target tsconfig.json created or truncated, without the document.
C10_AllOrNothingButFailedWrite ==
    /\ ErrorsSurfaceAtOnce
    /\ pc = "done" =>
          \/ SuccessOutcome
          \/ (FailureReported /\ (files = fs0.files \/ TargetLeftEmpty))

\* A run has ended with status 1 after its write failed on an existing
\* tsconfig.json.
C10_Witness ==
    /\ pc = "done"
    /\ exit_code = <<1>>
    /\ result = <<"Err", "write">>
    /\ TsconfigPath(project_dir) \in DOMAIN fs0.files
    /\ stderr = <<<<"Error:", "write">>>>

=============================================================================
